---- MODULE Spec2Model ----
(***************************************************************************)
(* Model of loam::MultiScanRegistration (MultiScanRegistration.cpp): the  *)
(* start-up delay of handleCloudMessage and process(): the per-point loop *)
(* (axis remap, validity filter, azimuth, ring-wrap detection, packing,   *)
(* IMU projection, bucketing), the construction of the sorted cloud with  *)
(* its index ranges, and the calls to feature extraction and publication. *)
(*                                                                         *)
(* Lengths are integers in units of 1e-3, times in units of 1e-3 s, and   *)
(* the packed intensity in units of 1e-3 (ring * 1000 + relTime).         *)
(* Azimuth comparisons (ori against 0 and against +-pi/4) are decided     *)
(* exactly from the signs and magnitudes of the coordinates.              *)
(*                                                                         *)
(* Spec is the registration handling cloud messages; MapperSpec is the    *)
(* object before that: MultiScanMapper (constructor, set,                 *)
(* getRingForAngle) and MultiScanRegistration::setup, with vertical       *)
(* angles in 1e-2 degrees (1e-4 rad where the code takes radians).        *)
(***************************************************************************)
EXTENDS Integers, Sequences, FiniteSets, TLC

\* ------------------------------------------------------------------------
\* Bounds of the model
\* ------------------------------------------------------------------------
\* longest freely chosen input sweep
MaxLen == 3
\* number of sweeps handed to process() in one behaviour
MaxSweeps == 2

\* ------------------------------------------------------------------------
\* Program constants
\* ------------------------------------------------------------------------
\* int scanID = 63;
InitScanID == 63
\* squared-norm threshold 0.0001, in (1e-3)^2 units
NormThreshSq == 100
\* the 0.1 of "relTime > 0.1", in 1e-3 s
RelTimeLimit == 100
\* start-up delay, in sweeps
SYSTEM_DELAY == 20
\* ring counts the mapper may be configured with: a custom 3-ring model and
\* the HDL-64E preset
RingCounts == {3, 64}
\* _config.scanPeriod, in 1e-3 s: the default 0.1 s and a configured 2 s
ScanPeriods == {100, 2000}
\* the IMU provider: no data, or data whose start-of-sweep transform is a
\* half turn about the vertical axis
IMUStates == {"none", "yaw180"}

\* ------------------------------------------------------------------------
\* Coordinates and points
\* ------------------------------------------------------------------------
Fin(v) == [fin |-> TRUE, v |-> v]
NaN == [fin |-> FALSE, v |-> 0]

PointXYZ(x, y, z) == [x |-> x, y |-> y, z |-> z]
\* a default-constructed pcl::PointXYZI
PointXYZI == [x |-> Fin(0), y |-> Fin(0), z |-> Fin(0), intensity |-> 0]

\* raw points with the given working-frame x (= raw y) and z (= raw x)
RawAt(px, pz) == PointXYZ(Fin(pz), Fin(px), Fin(0))

\* the input alphabet, named by azimuth ori = -atan2(point.x, point.z)
PtHighPos == RawAt(-1000, 0)
PtLowPos == RawAt(-1, 1000)
PtZeroOri == RawAt(0, 11)
PtLowNeg == RawAt(1, 1000)
PtHighNeg == RawAt(1000, 0)
PtOrigin == PointXYZ(Fin(0), Fin(0), Fin(0))
PtNaN == PointXYZ(NaN, Fin(1000), Fin(1000))
Alphabet == {PtHighPos, PtLowPos, PtZeroOri, PtLowNeg, PtHighNeg, PtOrigin, PtNaN}

\* ------------------------------------------------------------------------
\* Input sweeps
\* ------------------------------------------------------------------------
SeqsUpTo(S, n) == UNION {[1..k -> S] : k \in 0..n}

RECURSIVE Repeat(_, _)
Repeat(s, n) == IF n = 0 THEN <<>> ELSE s \o Repeat(s, n - 1)

\* 1000 * (sin, cos) of atan2 = -pi + 2 pi k / 99, k = 0..99: one ring of
\* 100 points whose azimuth ori goes linearly from +pi through 0 to -pi
RingTable ==
  <<
     <<-1, -1000>>, <<-63, -998>>, <<-127, -992>>, <<-189, -982>>, <<-251, -968>>, <<-312, -950>>,
     <<-372, -928>>, <<-430, -903>>, <<-486, -874>>, <<-541, -841>>, <<-593, -805>>, <<-643, -766>>,
     <<-690, -724>>, <<-735, -679>>, <<-776, -631>>, <<-815, -580>>, <<-850, -527>>, <<-881, -472>>,
     <<-910, -415>>, <<-934, -357>>, <<-955, -297>>, <<-972, -236>>, <<-985, -174>>, <<-994, -111>>,
     <<-999, -48>>, <<-1000, 16>>, <<-997, 79>>, <<-990, 142>>, <<-979, 205>>, <<-964, 266>>,
     <<-945, 327>>, <<-922, 386>>, <<-896, 444>>, <<-866, 500>>, <<-833, 554>>, <<-796, 606>>,
     <<-756, 655>>, <<-713, 701>>, <<-667, 745>>, <<-618, 786>>, <<-567, 824>>, <<-514, 858>>,
     <<-458, 889>>, <<-401, 916>>, <<-342, 940>>, <<-282, 959>>, <<-220, 975>>, <<-158, 987>>,
     <<-95, 995>>, <<-32, 999>>, <<32, 999>>, <<95, 995>>, <<158, 987>>, <<220, 975>>,
     <<282, 959>>, <<342, 940>>, <<401, 916>>, <<458, 889>>, <<514, 858>>, <<567, 824>>,
     <<618, 786>>, <<667, 745>>, <<713, 701>>, <<756, 655>>, <<796, 606>>, <<833, 554>>,
     <<866, 500>>, <<896, 444>>, <<922, 386>>, <<945, 327>>, <<964, 266>>, <<979, 205>>,
     <<990, 142>>, <<997, 79>>, <<1000, 16>>, <<999, -48>>, <<994, -111>>, <<985, -174>>,
     <<972, -236>>, <<955, -297>>, <<934, -357>>, <<910, -415>>, <<881, -472>>, <<850, -527>>,
     <<815, -580>>, <<776, -631>>, <<735, -679>>, <<690, -724>>, <<643, -766>>, <<593, -805>>,
     <<541, -841>>, <<486, -874>>, <<430, -903>>, <<372, -928>>, <<312, -950>>, <<251, -968>>,
     <<189, -982>>, <<127, -992>>, <<63, -998>>, <<0, -1000>>
  >>

PointsPerRing == Len(RingTable)
RingRotation == [k \in 1..PointsPerRing |-> RawAt(RingTable[k][1], RingTable[k][2])]

\* three rings of 100 points
SweepA == Repeat(RingRotation, 3)
\* five full rotations
SweepB == Repeat(RingRotation, 5)
\* enough two-point rotations to take the ring cursor below zero
SweepOverflow == Repeat(<<PtHighPos, PtHighNeg>>, InitScanID + 3)

\* where a sweep comes from: "free" sweeps have up to MaxLen points, each any
\* point of the alphabet; the others are the fixed sweeps above
Sources == {"free", "A", "B", "overflow"}
Fixed(src) == IF src = "A" THEN SweepA ELSE IF src = "B" THEN SweepB ELSE SweepOverflow
SizesOf(src) == IF src = "free" THEN 0..MaxLen ELSE {Len(Fixed(src))}
\* the points the sweep may hold at (0-based) index idx
InputAt(src, idx) ==
  IF src = "free" THEN Alphabet
  ELSE IF idx < Len(Fixed(src)) THEN {Fixed(src)[idx + 1]} ELSE {}

\* ------------------------------------------------------------------------
\* State
\* ------------------------------------------------------------------------
VARIABLES
  pc,                    \* "idle", "loop", "assemble", "extract", "publish", "crashed"
  _systemDelay,          \* MultiScanRegistration::_systemDelay
  nScanRings,            \* _scanMapper._nScanRings (getNumberOfScanRings())
  _lowerBound,           \* _scanMapper._lowerBound, in 1e-2 degrees
  _upperBound,           \* _scanMapper._upperBound, in 1e-2 degrees
  _factor,               \* _scanMapper._factor, as the quotient num / den
  mapperCall,            \* history: the last Ring Model operation and its result
  scanPeriod,            \* _config.scanPeriod
  imu,                   \* state of the IMU provider during the sweep
  source,                \* where the sweep being processed comes from
  laserCloudIn,          \* the points of the sweep read so far
  cloudSize,             \* size of the sweep; after the loop, the output size
  i,                     \* loop index of process() (0-based)
  scanID,                \* the ring cursor
  negPassed,
  posPassed,
  pointPrev,
  counter_invalid_point,
  laserCloudScans,       \* the ring buckets, indexed 0..nScanRings-1
  _laserCloud,           \* the sorted full resolution cloud
  _scanIndices,          \* its index ranges, one per ring
  appended,              \* history: <<input index, ring index>> of every push_back
  accessed,              \* history: the indices at which laserCloudIn has been read
  calls,                 \* history: the calls made after the loop of this sweep
  sweepNo                \* number of sweeps handed to process() so far

vars == <<pc, _systemDelay, nScanRings, _lowerBound, _upperBound, _factor,
          mapperCall, scanPeriod, imu, source, laserCloudIn,
          cloudSize, i, scanID, negPassed, posPassed, pointPrev,
          counter_invalid_point, laserCloudScans, _laserCloud, _scanIndices,
          appended, accessed, calls, sweepNo>>

_scanMapper == <<nScanRings, _lowerBound, _upperBound, _factor>>
config == <<_systemDelay, _scanMapper, mapperCall, scanPeriod>>
input == <<imu, source, cloudSize>>
detection == <<scanID, negPassed, posPassed>>
locals == <<i, scanID, negPassed, posPassed, pointPrev, counter_invalid_point,
            laserCloudScans>>
output == <<_laserCloud, _scanIndices>>

\* ------------------------------------------------------------------------
\* The per-point computations of process()
\* ------------------------------------------------------------------------
\* point.x = in.y; point.y = in.z; point.z = in.x
Remap(raw) == PointXYZ(raw.y, raw.z, raw.x)

\* pcl_isfinite on the three coordinates
IsFinitePoint(p) == p.x.fin /\ p.y.fin /\ p.z.fin

NormSq(p) == p.x.v * p.x.v + p.y.v * p.y.v + p.z.v * p.z.v

\* the two "continue" tests: the point is kept
IsValid(p) == IsFinitePoint(p) /\ ~(NormSq(p) < NormThreshSq)

\* ori = -atan2(p.x, p.z) compared with 0 and with -+ peakThresh = pi/4
OriNegative(p) == p.x.v > 0 \/ (p.x.v = 0 /\ p.z.v < 0)
OriPositive(p) == p.x.v < 0
OriBelowPeak(p) == (p.x.v > 0 /\ p.x.v > p.z.v) \/ (p.x.v = 0 /\ p.z.v < 0)
OriAbovePeak(p) == p.x.v < 0 /\ (0 - p.x.v) > p.z.v

\* variant: scanID++ in place of scanID--
WrapDetect_increment(idx, p, prev, sid, neg, pos) ==
  IF idx > 0
  THEN LET neg1 == neg \/ OriBelowPeak(p)
           pos1 == pos \/ OriAbovePeak(p)
           wrap == OriNegative(p) /\ OriPositive(prev) /\ neg1 /\ pos1
       IN  [scanID |-> IF wrap THEN sid + 1 ELSE sid,
            negPassed |-> IF wrap THEN FALSE ELSE neg1,
            posPassed |-> IF wrap THEN FALSE ELSE pos1]
  ELSE [scanID |-> sid, negPassed |-> neg, posPassed |-> pos]

\* the block "if (i > 0) { ... }": the flags and the ring cursor after it
WrapDetect(idx, p, prev, sid, neg, pos) ==
  IF idx > 0
  THEN LET neg1 == neg \/ OriBelowPeak(p)
           pos1 == pos \/ OriAbovePeak(p)
           wrap == OriNegative(p) /\ OriPositive(prev) /\ neg1 /\ pos1
       IN  [scanID |-> IF wrap THEN sid - 1 ELSE sid,
            negPassed |-> IF wrap THEN FALSE ELSE neg1,
            posPassed |-> IF wrap THEN FALSE ELSE pos1]
  ELSE [scanID |-> sid, negPassed |-> neg, posPassed |-> pos]

\* relTime = _config.scanPeriod * 0.99
RelTime(period) == (period * 99) \div 100

\* the two diagnostic tests on relTime
InvalidCount(rt) == (IF rt < 0 THEN 1 ELSE 0) + (IF rt > RelTimeLimit THEN 1 ELSE 0)

\* point.intensity = scanID + relTime
Pack(sid, rt) == sid * 1000 + rt

hasIMUData(st) == st # "none"

transformToStartIMU(p, st) ==
  IF st = "yaw180"
  THEN [p EXCEPT !.x = Fin(0 - p.x.v), !.z = Fin(0 - p.z.v)]
  ELSE p

\* the point as packed, projected and stored
Project(p, sid, period, st) ==
  LET q == [x |-> p.x, y |-> p.y, z |-> p.z, intensity |-> Pack(sid, RelTime(period))]
  IN  IF hasIMUData(st) THEN transformToStartIMU(q, st) ELSE q

\* ScanRegistration::reset: the buffers of the previous sweep are dropped
reset == <<>>

\* ------------------------------------------------------------------------
\* Construction of the sorted cloud
\* ------------------------------------------------------------------------
RECURSIVE BucketTotal(_, _)
\* number of points in buckets 0..n-1
BucketTotal(scans, n) == IF n = 0 THEN 0 ELSE BucketTotal(scans, n - 1) + Len(scans[n - 1])

RECURSIVE ConcatScans(_, _)
\* _laserCloud += laserCloudScans[i], for i = 0..n-1
ConcatScans(scans, n) == IF n = 0 THEN <<>> ELSE ConcatScans(scans, n - 1) \o scans[n - 1]

RECURSIVE RunningTotals(_, _)
\* the values cloudSize takes before buckets 0..n-1 are appended
RunningTotals(scans, n) ==
  IF n = 0 THEN <<>>
  ELSE LET before == RunningTotals(scans, n - 1)
       IN  Append(before, IF n = 1 THEN 0 ELSE before[n - 1] + Len(scans[n - 2]))

\* variant: the range end is the running total itself
IndexRange_endNotLast(before, size) ==
  LET after == before + size
  IN  [first |-> before, second |-> IF after > 0 THEN after ELSE 0]

\* variant: the range is created after the running total has been advanced
IndexRange_startAfter(before, size) ==
  LET after == before + size
  IN  [first |-> after, second |-> IF after > 0 THEN after - 1 ELSE 0]

\* IndexRange range(cloudSize, 0); cloudSize += size; range.second = ...
IndexRange(before, size) ==
  LET after == before + size
  IN  [first |-> before, second |-> IF after > 0 THEN after - 1 ELSE 0]

ScanRanges(scans, n) ==
  LET totals == RunningTotals(scans, n)
  IN  [r \in 1..n |-> IndexRange(totals[r], Len(scans[r - 1]))]

\* ------------------------------------------------------------------------
\* MultiScanMapper: the linear mapping from vertical angle to ring
\* ------------------------------------------------------------------------
\* vertical angle bounds handed to the mapper, in 1e-2 degrees
Bounds == {-1500, 500, 1000, 1500}
\* ring counts handed to the mapper
Counts == {1, 16}
\* vertical point angles handed to getRingForAngle, in 1e-4 rad
\* (-15, 0, 1 and 15 degrees)
Angles == {-2618, 0, 175, 2618}
\* values of the "lidar" parameter; "absent" when the parameter is not set
LidarNames == {"absent", "VLP-16", "HDL-32", "HDL-64E", "other"}
\* minVerticalAngle, maxVerticalAngle, nScanRings; <<>> when one is not set
ParamSets == {<<>>} \cup (Bounds \X Bounds \X Counts)
\* what a conversion of an infinite or NaN float to int can produce
UndefinedRings == {-2147483647 - 1, 0, 2147483647}

\* the quotient p / q truncated toward zero, q # 0 (the conversion int(...))
TruncDiv(p, q) ==
  LET a == IF q < 0 THEN 0 - p ELSE p
      b == IF q < 0 THEN 0 - q ELSE q
  IN  IF a >= 0 THEN a \div b ELSE 0 - ((0 - a) \div b)

\* the quotient p / q rounded to the nearest integer, q > 0
RoundDiv(p, q) == IF p >= 0 THEN (2 * p + q) \div (2 * q) ELSE 0 - ((2 * (0 - p) + q) \div (2 * q))

\* the constructor, and the fields after set: _factor is
\* (nScanRings - 1) / (upperBound - lowerBound)
MultiScanMapper(lowerBound, upperBound, n) ==
  [_lowerBound |-> lowerBound, _upperBound |-> upperBound, _nScanRings |-> n,
   _factor |-> [num |-> n - 1, den |-> upperBound - lowerBound]]

Velodyne_VLP_16 == MultiScanMapper(-1500, 1500, 16)
Velodyne_HDL_32 == MultiScanMapper(-3067, 1067, 32)
Velodyne_HDL_64E == MultiScanMapper(-2490, 200, 64)

\* the mapper of a registration with n rings, as setup leaves it
ActiveMapper(n) == IF n = 64 THEN Velodyne_HDL_64E ELSE MultiScanMapper(-1500, 1500, n)

\* angle * 180 / M_PI: 1e-4 rad to 1e-2 degrees
Degrees(angle) == RoundDiv(angle * 18000, 31416)

\* variant: the conversion to int without the + 0.5
getRingForAngle_truncate(angle, lowerBound, factor) ==
  TruncDiv((Degrees(angle) - lowerBound) * factor.num, factor.den)

\* int(((angle * 180 / M_PI) - _lowerBound) * _factor + 0.5), for a finite _factor
getRingForAngle(angle, lowerBound, factor) ==
  TruncDiv(2 * (Degrees(angle) - lowerBound) * factor.num + factor.den, 2 * factor.den)

\* the mapper now in use
Mapper ==
  [_lowerBound |-> _lowerBound, _upperBound |-> _upperBound, _nScanRings |-> nScanRings,
   _factor |-> _factor]

\* assignment of the four fields of _scanMapper
Assign(m) ==
  /\ _lowerBound' = m._lowerBound
  /\ _upperBound' = m._upperBound
  /\ nScanRings' = m._nScanRings
  /\ _factor' = m._factor

Call(op, args, ok, ring) == [op |-> op, args |-> args, ok |-> ok, ring |-> ring]

\* ------------------------------------------------------------------------
\* Initial state: the object as constructed and set up
\* ------------------------------------------------------------------------
Init ==
  /\ pc = "idle"
  /\ _systemDelay = SYSTEM_DELAY
  /\ nScanRings \in RingCounts
  /\ _lowerBound = ActiveMapper(nScanRings)._lowerBound
  /\ _upperBound = ActiveMapper(nScanRings)._upperBound
  /\ _factor = ActiveMapper(nScanRings)._factor
  /\ mapperCall = Call("setup", <<>>, TRUE, 0)
  /\ scanPeriod \in ScanPeriods
  /\ imu = "none"
  /\ source = "free"
  /\ laserCloudIn = <<>>
  /\ cloudSize = 0
  /\ i = 0
  /\ scanID = InitScanID
  /\ negPassed = FALSE
  /\ posPassed = FALSE
  /\ pointPrev = PointXYZI
  /\ counter_invalid_point = 0
  /\ laserCloudScans = [r \in 0..(nScanRings - 1) |-> <<>>]
  /\ _laserCloud = <<>>
  /\ _scanIndices = <<>>
  /\ appended = <<>>
  /\ accessed = {}
  /\ calls = <<>>
  /\ sweepNo = 0

\* ------------------------------------------------------------------------
\* handleCloudMessage
\* ------------------------------------------------------------------------
\* if (_systemDelay > 0) { _systemDelay--; return; }
DiscardCloudMessage ==
  /\ pc = "idle"
  /\ _systemDelay > 0
  /\ _systemDelay' = _systemDelay - 1
  /\ UNCHANGED <<pc, _scanMapper, mapperCall, scanPeriod, input, laserCloudIn,
                 locals, output,
                 appended, accessed, calls, sweepNo>>

\* variant: the last message of the warm-up is passed on too
Accepted_early ==
  /\ pc = "idle"
  /\ ~(_systemDelay > 1)
  /\ sweepNo < MaxSweeps

\* a message is passed on to process()
Accepted ==
  /\ pc = "idle"
  /\ ~(_systemDelay > 0)
  /\ sweepNo < MaxSweeps

\* variant: the ring cursor outlives the call (a static or member variable)
ProcessBegin_keepCursor(src, size, st) ==
  /\ Accepted
  /\ source' = src
  /\ cloudSize' = size
  /\ laserCloudIn' = <<>>
  /\ imu' = st
  /\ _laserCloud' = reset
  /\ _scanIndices' = reset
  /\ i' = 0
  /\ counter_invalid_point' = 0
  /\ scanID' = scanID
  /\ negPassed' = FALSE
  /\ posPassed' = FALSE
  /\ pointPrev' = PointXYZI
  /\ laserCloudScans' = [r \in 0..(nScanRings - 1) |-> <<>>]
  /\ appended' = <<>>
  /\ accessed' = {0, size - 1}
  /\ calls' = <<>>
  /\ sweepNo' = sweepNo + 1
  /\ pc' = IF 0 < size THEN "loop" ELSE "assemble"
  /\ UNCHANGED config

\* variant: the flags and the previous point outlive the call
ProcessBegin_keepPrev(src, size, st) ==
  /\ Accepted
  /\ source' = src
  /\ cloudSize' = size
  /\ laserCloudIn' = <<>>
  /\ imu' = st
  /\ _laserCloud' = reset
  /\ _scanIndices' = reset
  /\ i' = 0
  /\ counter_invalid_point' = 0
  /\ scanID' = InitScanID
  /\ UNCHANGED <<negPassed, posPassed, pointPrev>>
  /\ laserCloudScans' = [r \in 0..(nScanRings - 1) |-> <<>>]
  /\ appended' = <<>>
  /\ accessed' = {0, size - 1}
  /\ calls' = <<>>
  /\ sweepNo' = sweepNo + 1
  /\ pc' = IF 0 < size THEN "loop" ELSE "assemble"
  /\ UNCHANGED config

\* the part of process() before the loop, for a sweep of the given source
\* and size received while the IMU provider is in state st
ProcessBegin(src, size, st) ==
  /\ Accepted
  /\ source' = src
  /\ cloudSize' = size
  /\ laserCloudIn' = <<>>
  /\ imu' = st
  /\ _laserCloud' = reset
  /\ _scanIndices' = reset
  /\ i' = 0
  /\ counter_invalid_point' = 0
  /\ scanID' = InitScanID
  /\ negPassed' = FALSE
  /\ posPassed' = FALSE
  /\ pointPrev' = PointXYZI
  /\ laserCloudScans' = [r \in 0..(nScanRings - 1) |-> <<>>]
  /\ appended' = <<>>
  /\ accessed' = {0, size - 1}
  /\ calls' = <<>>
  /\ sweepNo' = sweepNo + 1
  /\ pc' = IF 0 < size THEN "loop" ELSE "assemble"
  /\ UNCHANGED config

\* laserCloudIn[0] and laserCloudIn[cloudSize - 1] are read after reset() and
\* before the locals of the loop exist: on an empty cloud the read is out of
\* range, and the process may stop there
ProcessBeginCrash(st) ==
  /\ Accepted
  /\ source' = "free"
  /\ cloudSize' = 0
  /\ laserCloudIn' = <<>>
  /\ imu' = st
  /\ sweepNo' = sweepNo + 1
  /\ _laserCloud' = reset
  /\ _scanIndices' = reset
  /\ appended' = <<>>
  /\ accessed' = {0, 0 - 1}
  /\ calls' = <<>>
  /\ pc' = "crashed"
  /\ UNCHANGED <<config, locals>>

\* ------------------------------------------------------------------------
\* One iteration of the loop of process(), on the raw point laserCloudIn[i]
\* ------------------------------------------------------------------------
Detect(raw) == WrapDetect(i, Remap(raw), pointPrev, scanID, negPassed, posPassed)
Stored(raw) == Project(Remap(raw), Detect(raw).scanID, scanPeriod, imu)
\* i++ and the loop test
AfterIteration == IF i + 1 < cloudSize THEN "loop" ELSE "assemble"

\* the iteration reads laserCloudIn[i]
Read(raw) ==
  /\ pc = "loop"
  /\ raw \in InputAt(source, i)
  /\ laserCloudIn' = Append(laserCloudIn, raw)
  /\ accessed' = accessed \cup {i}

\* the two "continue" branches
SkipPoint(raw) ==
  /\ Read(raw)
  /\ ~IsValid(Remap(raw))
  /\ i' = i + 1
  /\ pc' = AfterIteration
  /\ UNCHANGED <<config, input, detection, pointPrev, counter_invalid_point,
                 laserCloudScans, output, appended, calls, sweepNo>>

\* variant: "continue" in place of "break"
BreakLoop_continue(raw) ==
  /\ Read(raw)
  /\ IsValid(Remap(raw))
  /\ Detect(raw).scanID < 0
  /\ scanID' = Detect(raw).scanID
  /\ negPassed' = Detect(raw).negPassed
  /\ posPassed' = Detect(raw).posPassed
  /\ i' = i + 1
  /\ pc' = AfterIteration
  /\ UNCHANGED <<config, input, pointPrev, counter_invalid_point,
                 laserCloudScans, output, appended, calls, sweepNo>>

\* if (scanID < 0) { ...; break; }
BreakLoop(raw) ==
  /\ Read(raw)
  /\ IsValid(Remap(raw))
  /\ Detect(raw).scanID < 0
  /\ scanID' = Detect(raw).scanID
  /\ negPassed' = Detect(raw).negPassed
  /\ posPassed' = Detect(raw).posPassed
  /\ pc' = "assemble"
  /\ UNCHANGED <<config, input, i, pointPrev, counter_invalid_point,
                 laserCloudScans, output, appended, calls, sweepNo>>

\* what every iteration that reaches push_back does to the locals other than
\* the buckets
KeepPoint(raw) ==
  /\ Read(raw)
  /\ IsValid(Remap(raw))
  /\ ~(Detect(raw).scanID < 0)
  /\ scanID' = Detect(raw).scanID
  /\ negPassed' = Detect(raw).negPassed
  /\ posPassed' = Detect(raw).posPassed
  /\ counter_invalid_point' = counter_invalid_point + InvalidCount(RelTime(scanPeriod))
  /\ pointPrev' = Stored(raw)
  /\ appended' = Append(appended, <<i, Detect(raw).scanID>>)
  /\ UNCHANGED <<config, input, output, calls, sweepNo>>

\* laserCloudScans[scanID].push_back(point), scanID inside the vector
PushBack(raw) ==
  /\ KeepPoint(raw)
  /\ Detect(raw).scanID < nScanRings
  /\ laserCloudScans' = [laserCloudScans EXCEPT ![Detect(raw).scanID] = Append(@, Stored(raw))]
  /\ i' = i + 1
  /\ pc' = AfterIteration

\* laserCloudScans[scanID].push_back(point), scanID past the end of the
\* vector: the write lands outside the buckets and the loop goes on ...
PushBackOutOfRange(raw) ==
  /\ KeepPoint(raw)
  /\ ~(Detect(raw).scanID < nScanRings)
  /\ laserCloudScans' = laserCloudScans
  /\ i' = i + 1
  /\ pc' = AfterIteration

\* ... or the process stops at the write
PushBackOutOfRangeCrash(raw) ==
  /\ KeepPoint(raw)
  /\ ~(Detect(raw).scanID < nScanRings)
  /\ laserCloudScans' = laserCloudScans
  /\ i' = i
  /\ pc' = "crashed"

\* ------------------------------------------------------------------------
\* After the loop
\* ------------------------------------------------------------------------
\* construct sorted full resolution cloud
Assemble ==
  /\ pc = "assemble"
  /\ cloudSize' = BucketTotal(laserCloudScans, nScanRings)
  /\ _laserCloud' = _laserCloud \o ConcatScans(laserCloudScans, nScanRings)
  /\ _scanIndices' = _scanIndices \o ScanRanges(laserCloudScans, nScanRings)
  /\ calls' = Append(calls, "assemble")
  /\ pc' = "extract"
  /\ UNCHANGED <<config, imu, source, laserCloudIn, locals, appended, accessed, sweepNo>>

extractFeatures ==
  /\ pc = "extract"
  /\ calls' = Append(calls, "extractFeatures")
  /\ pc' = "publish"
  /\ UNCHANGED <<config, input, laserCloudIn, locals, output, appended, accessed,
                 sweepNo>>

publishResult ==
  /\ pc = "publish"
  /\ calls' = Append(calls, "publishResult")
  /\ pc' = "idle"
  /\ UNCHANGED <<config, input, laserCloudIn, locals, output, appended, accessed,
                 sweepNo>>

Next ==
  \/ DiscardCloudMessage
  \/ \E src \in Sources, st \in IMUStates : \E size \in SizesOf(src) : ProcessBegin(src, size, st)
  \/ \E st \in IMUStates : ProcessBeginCrash(st)
  \/ \E raw \in InputAt(source, i) : SkipPoint(raw)
  \/ \E raw \in InputAt(source, i) : BreakLoop(raw)
  \/ \E raw \in InputAt(source, i) : PushBack(raw)
  \/ \E raw \in InputAt(source, i) : PushBackOutOfRange(raw)
  \/ \E raw \in InputAt(source, i) : PushBackOutOfRangeCrash(raw)
  \/ Assemble
  \/ extractFeatures
  \/ publishResult

Spec == Init /\ [][Next]_vars

\* ------------------------------------------------------------------------
\* The operations on the mapper, before any cloud message is handled
\* ------------------------------------------------------------------------
\* MultiScanRegistration(scanMapper, config) with a mapper built by
\* MultiScanMapper(lowerBound, upperBound, nScanRings)
MapperInit ==
  /\ pc = "idle"
  /\ _systemDelay = SYSTEM_DELAY
  /\ \E lowerBound \in Bounds, upperBound \in Bounds, n \in Counts :
       /\ nScanRings = n
       /\ _lowerBound = MultiScanMapper(lowerBound, upperBound, n)._lowerBound
       /\ _upperBound = MultiScanMapper(lowerBound, upperBound, n)._upperBound
       /\ _factor = MultiScanMapper(lowerBound, upperBound, n)._factor
       /\ mapperCall = Call("constructor", <<lowerBound, upperBound, n>>, TRUE, 0)
  /\ scanPeriod \in ScanPeriods
  /\ imu = "none"
  /\ source = "free"
  /\ laserCloudIn = <<>>
  /\ cloudSize = 0
  /\ i = 0
  /\ scanID = InitScanID
  /\ negPassed = FALSE
  /\ posPassed = FALSE
  /\ pointPrev = PointXYZI
  /\ counter_invalid_point = 0
  /\ laserCloudScans = [r \in 0..(nScanRings - 1) |-> <<>>]
  /\ _laserCloud = <<>>
  /\ _scanIndices = <<>>
  /\ appended = <<>>
  /\ accessed = {}
  /\ calls = <<>>
  /\ sweepNo = 0

\* what no operation on the mapper touches
registration == <<pc, _systemDelay, input, laserCloudIn, locals, output, appended,
                  accessed, calls, sweepNo>>

\* MultiScanMapper::set
set(lowerBound, upperBound, n) ==
  /\ pc = "idle"
  /\ Assign(MultiScanMapper(lowerBound, upperBound, n))
  /\ mapperCall' = Call("set", <<lowerBound, upperBound, n>>, TRUE, 0)
  /\ UNCHANGED <<registration, scanPeriod>>

\* the parameters are refused by setup
Refused(params) == params[1] >= params[2] \/ params[3] < 2

\* MultiScanRegistration::setup; baseOk is the result of
\* ScanRegistration::setup
setup(baseOk, lidar, hasScanPeriod, params) ==
  /\ pc = "idle"
  /\ IF ~baseOk \/ lidar = "other" \/ (lidar = "absent" /\ params # <<>> /\ Refused(params))
     THEN /\ mapperCall' = Call("setup", params, FALSE, 0)
          /\ UNCHANGED <<_scanMapper, scanPeriod>>
     ELSE IF lidar # "absent"
     THEN /\ Assign(CASE lidar = "VLP-16" -> Velodyne_VLP_16
                      [] lidar = "HDL-32" -> Velodyne_HDL_32
                      [] lidar = "HDL-64E" -> Velodyne_HDL_64E)
          /\ scanPeriod' = IF hasScanPeriod THEN scanPeriod ELSE 100
          /\ mapperCall' = Call("setup", <<>>, TRUE, 0)
     ELSE IF params # <<>>
     THEN /\ Assign(MultiScanMapper(params[1], params[2], params[3]))
          /\ mapperCall' = Call("setup", params, TRUE, 0)
          /\ UNCHANGED scanPeriod
     ELSE /\ mapperCall' = Call("setup", <<>>, TRUE, 0)
          /\ UNCHANGED <<_scanMapper, scanPeriod>>
  /\ UNCHANGED registration

\* MultiScanMapper::getRingForAngle with a finite _factor
RingForAngle(angle) ==
  /\ pc = "idle"
  /\ _factor.den # 0
  /\ mapperCall' = Call("getRingForAngle", <<angle>>, TRUE,
                        getRingForAngle(angle, _lowerBound, _factor))
  /\ UNCHANGED <<registration, _scanMapper, scanPeriod>>

\* MultiScanMapper::getRingForAngle when _factor is infinite or NaN
\* (_upperBound = _lowerBound): the conversion to int is undefined
RingForAngleUndefined(angle, ring) ==
  /\ pc = "idle"
  /\ _factor.den = 0
  /\ mapperCall' = Call("getRingForAngle", <<angle>>, TRUE, ring)
  /\ UNCHANGED <<registration, _scanMapper, scanPeriod>>

MapperNext ==
  \/ \E lowerBound \in Bounds, upperBound \in Bounds, n \in Counts : set(lowerBound, upperBound, n)
  \/ \E baseOk \in BOOLEAN, lidar \in LidarNames, hasScanPeriod \in BOOLEAN, params \in ParamSets :
       setup(baseOk, lidar, hasScanPeriod, params)
  \/ \E angle \in Angles : RingForAngle(angle)
  \/ \E angle \in Angles, ring \in UndefinedRings : RingForAngleUndefined(angle, ring)

MapperSpec == MapperInit /\ [][MapperNext]_vars

TypeOK ==
  /\ pc \in {"idle", "loop", "assemble", "extract", "publish", "crashed"}
  /\ _systemDelay \in 0..SYSTEM_DELAY
  /\ nScanRings \in RingCounts
  /\ sweepNo \in 0..MaxSweeps
  /\ pc = "loop" => i < cloudSize /\ Len(laserCloudIn) = i
  /\ DOMAIN laserCloudScans = 0..(nScanRings - 1)

\* ------------------------------------------------------------------------
\* Vocabulary of the properties
\* ------------------------------------------------------------------------
Rings == 0..(nScanRings - 1)
\* the loop of the current sweep is over
LoopDone == pc \in {"assemble", "extract", "publish", "idle"} /\ sweepNo > 0
\* the sorted cloud of the current sweep has been built
Assembled == Len(calls) > 0
\* process() has just been entered: no point has been read yet
AtSweepStart == pc \in {"loop", "assemble"} /\ Len(laserCloudIn) = 0 /\ i = 0
RECURSIVE PrevTotal(_)
\* number of points in the buckets of the rings below r
PrevTotal(r) == IF r = 0 THEN 0 ELSE Len(laserCloudScans[r - 1]) + PrevTotal(r - 1)
TotalRetained == PrevTotal(nScanRings)
\* index idx lies in the range recorded for ring r
InRange(idx, r) == _scanIndices[r + 1].first <= idx /\ idx <= _scanIndices[r + 1].second
\* the rings whose recorded range holds index idx
RingsCovering(idx) == {r \in Rings : InRange(idx, r)}
\* the push_backs of input point idx that went into a bucket
PushesOf(idx) == {k \in 1..Len(appended) : appended[k][1] = idx /\ appended[k][2] \in Rings}
\* the push_backs that went into bucket r
PushesInto(r) == {k \in 1..Len(appended) : appended[k][2] = r}
RECURSIVE Flat(_)
\* the buckets of the rings below r, one after the other
Flat(r) == IF r = 0 THEN <<>> ELSE Flat(r - 1) \o laserCloudScans[r - 1]
\* a raw point that the validity filter is to drop
Degenerate(raw) ==
  \/ ~raw.x.fin \/ ~raw.y.fin \/ ~raw.z.fin
  \/ raw.x.v * raw.x.v + raw.y.v * raw.y.v + raw.z.v * raw.z.v < NormThreshSq
\* the calls that end process()
ProcessTail == <<"assemble", "extractFeatures", "publishResult">>

\* ------------------------------------------------------------------------
\* C1 (as claimed): every push_back of a retained point goes to a bucket
\* index between 0 and ringCount-1.
\* ------------------------------------------------------------------------
C1_AppendInsideTable == \A k \in 1..Len(appended) : appended[k][2] \in Rings

\* ------------------------------------------------------------------------
\* C2 (as claimed): when a sweep starts the ring cursor is ringCount-1, and
\* the first retained point of the sweep is given ring index ringCount-1.
\* ------------------------------------------------------------------------
C2_CursorStartsAtTopRing ==
  /\ AtSweepStart => scanID = nScanRings - 1
  /\ Len(appended) > 0 => appended[1][2] = nScanRings - 1

C4_RangeFormula ==
  Assembled =>
    \A r \in Rings :
      _scanIndices[r + 1] =
        [first |-> PrevTotal(r), second |-> PrevTotal(r) + Len(laserCloudScans[r]) - 1]

\* C4 (amended): the range recorded for ring r is
\* (prevTotal, prevTotal + len(bucket r) - 1), except that its end is 0 when
\* bucket r and all buckets before it are empty.  prevTotal is 0 for ring 0
\* and grows by the length of each bucket passed.
C4_RangeFormulaClamped ==
  Assembled =>
    /\ _scanIndices[1].first = 0
    /\ \A r \in Rings :
         /\ r > 0 => _scanIndices[r + 1].first =
                       _scanIndices[r].first + Len(laserCloudScans[r - 1])
         /\ _scanIndices[r + 1].second =
              IF _scanIndices[r + 1].first + Len(laserCloudScans[r]) = 0
              THEN 0
              ELSE _scanIndices[r + 1].first + Len(laserCloudScans[r]) - 1

\* an assembled sweep with an empty lowest bucket, a bucket of one point and
\* a bucket of two points or more
C4_Witness ==
  /\ Assembled
  /\ Len(laserCloudScans[0]) = 0
  /\ Len(laserCloudScans[nScanRings - 2]) = 1
  /\ Len(laserCloudScans[nScanRings - 1]) > 1

\* ------------------------------------------------------------------------
\* C5 (as claimed): scenario A, a 3-ring model and three rings of 100 valid
\* points each: the first 100 points are given ring 2, the next 100 ring 1,
\* the last 100 ring 0, and each bucket ends up with 100 points.
\* ------------------------------------------------------------------------
C5_ScenarioA ==
  (source = "A" /\ nScanRings = 3 /\ imu = "none") =>
    /\ \A k \in 1..Len(appended) : appended[k] = <<k - 1, 2 - ((k - 1) \div PointsPerRing)>>
    /\ LoopDone =>
         /\ Len(appended) = 3 * PointsPerRing
         /\ \A r \in Rings : Len(laserCloudScans[r]) = PointsPerRing

\* ------------------------------------------------------------------------
\* C6 (as claimed): scenario B, ringCount = 3 and five full rotations: the
\* ring cursor is never negative, only points of the first three rotations
\* are put in buckets, and after the loop the buckets hold exactly those.
\* ------------------------------------------------------------------------
C6_ScenarioB ==
  (source = "B" /\ nScanRings = 3 /\ imu = "none") =>
    /\ scanID >= 0
    /\ \A k \in 1..Len(appended) :
         appended[k][1] < 3 * PointsPerRing /\ appended[k][2] \in Rings
    /\ LoopDone =>
         {appended[k][1] : k \in 1..Len(appended)} = 0..(3 * PointsPerRing - 1)

\* ------------------------------------------------------------------------
\* C7: ring overflow abort.  From the step that takes the ring cursor below
\* 0 to the end of that sweep, no point is read or bucketed and the buckets
\* keep their contents; the loop is left at once, and the sorted cloud is
\* built from these buckets, then features are extracted, then the result is
\* published, each once.
\* ------------------------------------------------------------------------
C7_AbortStep ==
  (scanID' < 0 /\ pc # "idle") =>
    /\ laserCloudScans' = laserCloudScans
    /\ appended' = appended
    /\ i' = i
    /\ \/ /\ pc = "loop" /\ pc' = "assemble"
          /\ scanID >= 0
          /\ calls' = <<>>
       \/ /\ pc = "assemble" /\ pc' = "extract"
          /\ calls' = <<"assemble">>
          /\ _laserCloud' = Flat(nScanRings)
          /\ Len(_scanIndices') = nScanRings
       \/ /\ pc = "extract" /\ pc' = "publish"
          /\ calls' = <<"assemble", "extractFeatures">>
          /\ UNCHANGED output
       \/ /\ pc = "publish" /\ pc' = "idle"
          /\ calls' = ProcessTail
          /\ UNCHANGED output

C7_OverflowAbort == [][C7_AbortStep]_vars

\* a sweep of a 64-ring model that overflowed before its end and has been
\* published with the points bucketed before the overflow
C7_Witness ==
  /\ pc = "idle"
  /\ scanID < 0
  /\ nScanRings = 64
  /\ source = "overflow"
  /\ Len(laserCloudIn) < Len(SweepOverflow)
  /\ calls = ProcessTail
  /\ Len(_laserCloud) = Len(appended)
  /\ Len(appended) = i

\* ------------------------------------------------------------------------
\* C8: no reconstruction state crosses the sweep boundary.  Whenever
\* process() has been entered and no point has been read yet, the ring
\* cursor, the two flags, the anomaly counter, the previous point and the
\* buckets are what they are for the first sweep.
\* ------------------------------------------------------------------------
C8_FreshStateEachSweep ==
  AtSweepStart =>
    /\ scanID = InitScanID
    /\ negPassed = FALSE
    /\ posPassed = FALSE
    /\ counter_invalid_point = 0
    /\ pointPrev = PointXYZI
    /\ DOMAIN laserCloudScans = Rings
    /\ \A r \in Rings : laserCloudScans[r] = <<>>
    /\ appended = <<>>

\* the start of a sweep that is not the first
C8_Witness == AtSweepStart /\ pc = "loop" /\ sweepNo > 1

\* ------------------------------------------------------------------------
\* C9: within one sweep, from one retained point to the next the ring index
\* does not increase and decreases by at most 1.
\* ------------------------------------------------------------------------
C9_RingIndexSteps ==
  \A k \in 1..(Len(appended) - 1) :
    /\ appended[k + 1][2] <= appended[k][2]
    /\ appended[k][2] - appended[k + 1][2] <= 1

\* two retained points on one ring followed by a point on the next ring
C9_Witness ==
  /\ Len(appended) >= 3
  /\ appended[2][2] = appended[1][2]
  /\ appended[3][2] = appended[2][2] - 1

\* ------------------------------------------------------------------------
\* C10 (as claimed): a point with a non-finite coordinate or a squared norm
\* below 1e-4 is never appended to a bucket; every other point processed
\* before an abort is appended to exactly one bucket.
\* ------------------------------------------------------------------------
C10_ValidityFilter ==
  pc # "crashed" =>
    /\ \A k \in 1..Len(appended) : ~Degenerate(laserCloudIn[appended[k][1] + 1])
    /\ \A idx \in 0..(i - 1) :
         Cardinality(PushesOf(idx)) = IF Degenerate(laserCloudIn[idx + 1]) THEN 0 ELSE 1
    /\ \A r \in Rings : Len(laserCloudScans[r]) = Cardinality(PushesInto(r))

\* ------------------------------------------------------------------------
\* C11 (as claimed): for every point in a bucket and every configured scan
\* period, the integer part of the packed field is the index of the bucket
\* the point is in, and the packed field minus that index is the relative
\* time scanPeriod * 0.99.
\* ------------------------------------------------------------------------
C11_PackedRoundTrip ==
  \A r \in Rings : \A k \in 1..Len(laserCloudScans[r]) :
    LET aux == laserCloudScans[r][k].intensity
    IN  /\ aux \div 1000 = r
        /\ aux - r * 1000 = RelTime(scanPeriod)

\* ------------------------------------------------------------------------
\* C12 (as claimed): the constructor, set and setup with explicit parameters
\* fail when lowerBound >= upperBound or ringCount < 2, and the mapper in
\* use always has lowerBound < upperBound and ringCount >= 2.
\* ------------------------------------------------------------------------
C12_InvalidModelRejected ==
  /\ (/\ mapperCall.op \in {"constructor", "set", "setup"}
      /\ mapperCall.args # <<>>
      /\ Refused(mapperCall.args)) => ~mapperCall.ok
  /\ _lowerBound < _upperBound
  /\ nScanRings >= 2

\* getRingForAngle has just been applied to 0 rad on the mapper (-15, 15, 16)
ZeroOnVLP16 ==
  /\ mapperCall.op = "getRingForAngle"
  /\ mapperCall.args = <<0>>
  /\ Mapper = MultiScanMapper(-1500, 1500, 16)

\* ------------------------------------------------------------------------
\* C13 (as claimed): on the mapper with bounds -15 and 15 degrees and 16
\* rings, getRingForAngle of an angle of 0 returns ring 7.
\* ------------------------------------------------------------------------
C13_ZeroIsRing7 == ZeroOnVLP16 => mapperCall.ring = 7

\* ------------------------------------------------------------------------
\* C13 (amended): on the mapper with bounds -15 and 15 degrees and 16
\* rings, getRingForAngle of an angle of 0 returns ring 8: the linear map
\* gives 7.5 and the conversion int(7.5 + 0.5) gives 8.
\* ------------------------------------------------------------------------
C13_ZeroIsRing8 == ZeroOnVLP16 => mapperCall.ring = 8

C13_Witness == ZeroOnVLP16 /\ mapperCall.ring > 7

\* the retained points given ring r, as stored, in the order of their arrival
RetainedOf(r) ==
  LET mine == SelectSeq(appended, LAMBDA a : a[2] = r)
  IN  [k \in 1..Len(mine) |->
         Project(Remap(laserCloudIn[mine[k][1] + 1]), r, scanPeriod, imu)]

\* ------------------------------------------------------------------------
\* C14 (as claimed): after output assembly the sorted cloud is the
\* concatenation of buckets 0..ringCount-1 in ascending order; it holds
\* every retained point of the sweep exactly once, the integer part of the
\* packed field does not decrease along the cloud, and the points of one
\* ring are in the order of their arrival.
\* ------------------------------------------------------------------------
C14_CloudIsSortedSweep ==
  Assembled =>
    /\ _laserCloud = Flat(nScanRings)
    /\ Len(_laserCloud) = Len(appended)
    /\ \A k \in 1..(Len(_laserCloud) - 1) :
         _laserCloud[k].intensity \div 1000 <= _laserCloud[k + 1].intensity \div 1000
    /\ \A r \in Rings : laserCloudScans[r] = RetainedOf(r)

\* the retained point of push_back number k, before it is stored
RetainedPoint(k) == Remap(laserCloudIn[appended[k][1] + 1])
\* the push_backs after the last decrement of the cursor: those given the
\* ring of the cursor, but for the one that made the decrement
SinceDecrement ==
  LET same == {k \in 1..Len(appended) : appended[k][2] = scanID}
  IN  IF scanID = InitScanID THEN same
      ELSE {k \in same : \E j \in same : j < k}
\* the wrap-detection rule told over the retained points, for the point cur
WrapRule(cur) ==
  /\ Len(appended) > 0
  /\ OriPositive(RetainedPoint(Len(appended)))
  /\ OriNegative(cur)
  /\ OriBelowPeak(cur) \/ \E k \in SinceDecrement : OriBelowPeak(RetainedPoint(k))
  /\ OriAbovePeak(cur) \/ \E k \in SinceDecrement : OriAbovePeak(RetainedPoint(k))
\* this step is an iteration of the loop on a valid point
ValidIteration ==
  /\ pc = "loop"
  /\ pc' # "crashed"
  /\ Len(laserCloudIn') = Len(laserCloudIn) + 1
  /\ ~Degenerate(laserCloudIn'[Len(laserCloudIn')])

\* ------------------------------------------------------------------------
\* C15 (as claimed): without IMU data, at a retained point the ring cursor
\* is decremented by 1 and both flags are reset if and only if the previous
\* retained point has azimuth > 0, this point has azimuth < 0, and since
\* the last decrement (or the sweep start) some retained point, this one
\* included, had azimuth < -pi/4 and some retained point had azimuth
\* > +pi/4; otherwise the cursor is unchanged.
\* ------------------------------------------------------------------------
C15_WrapStep ==
  (ValidIteration /\ imu = "none") =>
    IF WrapRule(Remap(laserCloudIn'[Len(laserCloudIn')]))
    THEN scanID' = scanID - 1 /\ ~negPassed' /\ ~posPassed'
    ELSE scanID' = scanID
C15_WrapRule == [][C15_WrapStep]_vars

\* this step is the iteration on the first valid point of the sweep
FirstRetainedIteration ==
  /\ pc = "loop"
  /\ Len(laserCloudIn') = Len(laserCloudIn) + 1
  /\ ~Degenerate(laserCloudIn'[Len(laserCloudIn')])
  /\ Len(appended) = 0
\* values the previous point could hold before it is assigned
AnyPrev == {PointXYZI} \cup {Remap(raw) : raw \in Alphabet}

\* ------------------------------------------------------------------------
\* C16: the first retained point of a sweep never decrements the ring
\* cursor, whatever its azimuth, whatever the previous point holds, and
\* also when dropped points precede it.
\* ------------------------------------------------------------------------
C16_FirstRetainedStep ==
  FirstRetainedIteration =>
    /\ scanID' = scanID
    /\ scanID = InitScanID
    /\ \A prev \in AnyPrev :
         WrapDetect(i, Remap(laserCloudIn'[Len(laserCloudIn')]), prev, scanID,
                    negPassed, posPassed).scanID = scanID
C16_FirstPointNoWrap == [][C16_FirstRetainedStep]_vars

\* in the second sweep a first retained point of negative azimuth, met after
\* a dropped point, has left the cursor alone
C16_Witness ==
  /\ sweepNo = 2
  /\ Len(appended) = 1
  /\ appended[1][1] > 0
  /\ OriNegative(RetainedPoint(1))
  /\ scanID = InitScanID

\* ------------------------------------------------------------------------
\* C17: the delay counter starts at SYSTEM_DELAY, never increases and never
\* becomes negative; each of the first SYSTEM_DELAY messages takes 1 from it
\* and is dropped without a call of process(); every message after them is
\* handed to process() once, one message after the other.
\* ------------------------------------------------------------------------
C17_MessageStep ==
  /\ 0 <= _systemDelay' /\ _systemDelay' <= _systemDelay /\ _systemDelay <= SYSTEM_DELAY
  /\ _systemDelay' # _systemDelay =>
       /\ _systemDelay' = _systemDelay - 1
       /\ sweepNo = 0
       /\ UNCHANGED <<pc, sweepNo, laserCloudIn, locals, output, appended, calls>>
  /\ sweepNo' # sweepNo =>
       /\ sweepNo' = sweepNo + 1
       /\ _systemDelay = 0
       /\ pc = "idle"
       /\ laserCloudIn' = <<>>
C17_WarmUp == [][C17_MessageStep]_vars

\* all the warm-up messages have been dropped and two sweeps processed
C17_Witness == _systemDelay = 0 /\ sweepNo = 2 /\ pc = "idle" /\ calls = ProcessTail

RECURSIVE RingsFrom(_, _, _)
\* the rings the loop of process() gives to the valid points of a sweep from
\* position k on, st being the locals before that position and the state
\* of the IMU provider
RingsFrom(sweep, k, st) ==
  IF k > Len(sweep) THEN st.rings
  ELSE IF ~IsValid(Remap(sweep[k])) THEN RingsFrom(sweep, k + 1, st)
  ELSE LET d == WrapDetect(k - 1, Remap(sweep[k]), st.pointPrev, st.scanID,
                           st.negPassed, st.posPassed)
       IN  IF d.scanID < 0 THEN st.rings
           ELSE RingsFrom(sweep, k + 1,
                  [scanID |-> d.scanID, negPassed |-> d.negPassed,
                   posPassed |-> d.posPassed,
                   pointPrev |-> Project(Remap(sweep[k]), d.scanID, scanPeriod, st.imu),
                   rings |-> Append(st.rings, d.scanID), imu |-> st.imu])
\* the rings process() gives to the valid points of a whole sweep while the
\* IMU provider is in state st
RingsOf(sweep, st) ==
  RingsFrom(sweep, 1, [scanID |-> InitScanID, negPassed |-> FALSE, posPassed |-> FALSE,
                       pointPrev |-> PointXYZI, rings |-> <<>>, imu |-> st])
\* the rings given to the retained points of the current sweep
AssignedRings == [k \in 1..Len(appended) |-> appended[k][2]]
\* the current sweep without its invalid points
ValidOnly == SelectSeq(laserCloudIn, LAMBDA raw : ~Degenerate(raw))

\* ------------------------------------------------------------------------
\* C18 (as claimed): the rings given to the valid points of a sweep are the
\* rings they are given when the invalid points are taken out of the sweep
\* before it is processed.
\* ------------------------------------------------------------------------
C18_DroppedPointsTransparent ==
  (LoopDone /\ pc # "crashed") => AssignedRings = RingsOf(ValidOnly, imu)

\* ------------------------------------------------------------------------
\* C19 (as claimed): the rings given to the retained points of a sweep, and
\* the point at which the loop is left on overflow, are those of the same
\* sweep processed without IMU data.
\* ------------------------------------------------------------------------
C19_RingsIgnoreIMU ==
  LoopDone => AssignedRings = RingsOf(laserCloudIn, "none")

\* the sweep handed to the current call of process() was empty
EmptySweep == sweepNo > 0 /\ (0 - 1) \in accessed

\* ------------------------------------------------------------------------
\* C20 (as claimed): process() reads laserCloudIn only at indices from 0 to
\* size-1, for every size, 0 included; an empty sweep goes through and
\* gives an empty sorted cloud and ringCount index ranges.
\* ------------------------------------------------------------------------
C20_ReadsInsideSweep ==
  /\ pc \in {"loop", "assemble", "crashed"} =>
       \A idx \in accessed : 0 <= idx /\ idx < cloudSize
  /\ EmptySweep =>
       /\ pc # "crashed"
       /\ Assembled => _laserCloud = <<>> /\ Len(_scanIndices) = nScanRings

====
